---- MODULE Spec2Model ----
(***************************************************************************)
(* Beltpack intercom client (src/src/main.rs): the validated value types   *)
(* (User, Percent) and the control loop of main, modelled as a state       *)
(* machine.  Text is a sequence of Unicode code points; the collaborators  *)
(* (GPIO lines, nmcli, local_ip, the SSD1306 buffer) are the inputs and    *)
(* the canvas of the model.  GPIO reads and draw/flush calls are taken to  *)
(* succeed (their unwrap() never fires here); the unwrap() calls on        *)
(* configuration, parsing, Percent::new and local_ip are modelled.         *)
(***************************************************************************)
EXTENDS Integers, Sequences, FiniteSets, TLC

VARIABLES pc, config, current_user, target_user_1, target_user_2, display, panel,
          counter, secs, log, inp, prev, held, sinceQuery, gap, everPower,
          everPtt, arg, ret

vars == <<pc, config, current_user, target_user_1, target_user_2, display, panel,
          counter, secs, log, inp, prev, held, sinceQuery, gap, everPower,
          everPtt, arg, ret>>

(***************************************************************************)
(* Bounds of the model.                                                    *)
(***************************************************************************)
\* Percent::new is applied to the decimal strings of 0..MaxPercentArg.
MaxPercentArg == 300
\* User::new is applied to every string over NameAlphabet of at most this many characters.
MaxNameChars == 7
\* Error::new is applied to every string over CodeAlphabet of at most this many characters.
MaxCodeChars == 5
\* Longest generated error text, in chars.
MaxMsgChars == 4

(***************************************************************************)
(* Text helpers.                                                           *)
(***************************************************************************)
\* char::is_ascii
IsAscii(c) == c <= 127

\* The number of bytes of a char in UTF-8 (str::len counts bytes).
Utf8Len(c) == IF c <= 127 THEN 1 ELSE IF c <= 2047 THEN 2 ELSE IF c <= 65535 THEN 3 ELSE 4

RECURSIVE StrLen(_)
\* str::len: the length of the string in bytes.
StrLen(s) == IF s = <<>> THEN 0 ELSE Utf8Len(Head(s)) + StrLen(Tail(s))

\* chars().all(|c| c.is_ascii())
AllAscii(s) == \A i \in 1..Len(s) : IsAscii(s[i])

\* char::to_digit(10): the digit's value, or -1 when the char is no decimal digit.
ToDigit10(c) == IF c >= 48 /\ c <= 57 THEN c - 48 ELSE -1

RECURSIVE ParseDigits(_, _)
\* The digit loop of u8::from_str: checked multiply-and-add, -1 on a bad digit or overflow.
ParseDigits(s, acc) ==
    IF s = <<>> THEN acc
    ELSE LET d == ToDigit10(Head(s))
             next == acc * 10 + d
         IN  IF d = -1 \/ next > 255 THEN -1 ELSE ParseDigits(Tail(s), next)

\* str::parse::<u8>(): the value 0..255, or -1 for Err(ParseIntError)
\* (empty, a lone sign, a bad digit, overflow; one leading '+' is accepted).
ParseU8(s) ==
    IF s = <<>> THEN -1
    ELSE IF Len(s) = 1 /\ (s[1] = 43 \/ s[1] = 45) THEN -1
    ELSE IF s[1] = 43 THEN ParseDigits(Tail(s), 0)
    ELSE ParseDigits(s, 0)

RECURSIVE ToDecimal(_)
\* Display of an unsigned integer: its decimal digits, most significant first.
ToDecimal(n) ==
    IF n < 10 THEN <<48 + n>> ELSE Append(ToDecimal(n \div 10), 48 + (n % 10))

\* char::is_whitespace, on the ASCII range.
IsWhitespace(c) == c \in {9, 10, 11, 12, 13, 32}

RECURSIVE TrimEnd(_)
\* str::trim_end
TrimEnd(s) ==
    IF s # <<>> /\ IsWhitespace(s[Len(s)]) THEN TrimEnd(SubSeq(s, 1, Len(s) - 1)) ELSE s

\* String::from_utf8_lossy on the bytes the model feeds it: an ASCII byte is its
\* own char, any other byte here is an invalid sequence and becomes U+FFFD.
FromUtf8Lossy(bytes) == [i \in 1..Len(bytes) |-> IF bytes[i] <= 127 THEN bytes[i] ELSE 65533]

(***************************************************************************)
(* Validated value types.  A result is [tag, val, msg]: Ok carries val,    *)
(* Err carries msg, Panic is an unwrap() that aborted the process.         *)
(***************************************************************************)
Ok(v) == [tag |-> "Ok", val |-> v, msg |-> ""]
ErrUser(m) == [tag |-> "Err", val |-> <<>>, msg |-> m]
ErrPercent(m) == [tag |-> "Err", val |-> 0, msg |-> m]
PanicPercent == [tag |-> "Panic", val |-> 0, msg |-> "unwrap on Err(ParseIntError)"]

\* A plausible off-by-one: names of exactly six bytes rejected.
User_new_short(value) ==
    IF StrLen(value) < 6 /\ AllAscii(value) THEN Ok(value) ELSE ErrUser("Invalid Input")

\* User::new
User_new(value) ==
    IF StrLen(value) <= 6 /\ AllAscii(value) THEN Ok(value) ELSE ErrUser("Invalid Input")

\* impl Display for User
User_fmt(u) == u

\* Percent::new
Percent_new(value) ==
    LET new_value == ParseU8(value)
    IN  IF new_value = -1 THEN PanicPercent
        ELSE IF new_value <= 100 THEN Ok(new_value)
        ELSE ErrPercent("Invalid Input")

\* impl Display for Percent
Percent_fmt(p) == ToDecimal(p)

\* The numbers of leading chars of s that make up exactly k bytes: one when k is
\* a char boundary of s, none when k falls inside a char or past the end.
BoundaryAt(s, k) == {n \in 0..Len(s) : StrLen(SubSeq(s, 1, n)) = k}

\* str::is_char_boundary
IsCharBoundary(s, k) == BoundaryAt(s, k) # {}

\* &s[..k], for k a char boundary.
SliceTo(s, k) == SubSeq(s, 1, CHOOSE n \in BoundaryAt(s, k) : TRUE)

\* &s[k..], for k a char boundary.
SliceFrom(s, k) == SubSeq(s, (CHOOSE n \in BoundaryAt(s, k) : TRUE) + 1, Len(s))

\* char::is_digit(6)
IsDigit6(c) == c >= 48 /\ c <= 53

RECURSIVE FromStrRadix6(_, _)
\* u8::from_str_radix(s, 6) on a string of base-6 digits: -1 on overflow.
FromStrRadix6(s, acc) ==
    IF s = <<>> THEN acc
    ELSE LET next == acc * 6 + (Head(s) - 48)
         IN  IF next > 255 THEN -1 ELSE FromStrRadix6(Tail(s), next)

ErrError(m) == [tag |-> "Err", val |-> 0, msg |-> m]
PanicError == [tag |-> "Panic", val |-> 0, msg |-> "byte index is not a char boundary"]

\* Error::new: the slices value[..2] and value[3..] are taken by byte index and
\* abort the process when an index falls inside a multi-byte char.
Error_new(value) ==
    IF StrLen(value) = 4
    THEN IF ~IsCharBoundary(value, 2) \/ ~IsCharBoundary(value, 3) THEN PanicError
         ELSE LET modified == SliceTo(value, 2) \o SliceFrom(value, 3)
              IN  IF \A i \in 1..Len(modified) : IsDigit6(modified[i])
                  THEN IF FromStrRadix6(modified, 0) = -1 THEN PanicError
                       ELSE Ok(FromStrRadix6(modified, 0))
                  ELSE ErrError("Invalid input")
    ELSE ErrError("Invalid input")

RECURSIVE DigitsLsf(_)
\* The loop of Error::fmt: the base-6 digits of n as chars, least significant
\* first, stopping when the quotient is 0.
DigitsLsf(n) ==
    LET m == n % 6
        q == n \div 6
    IN  IF q = 0 THEN <<48 + m>> ELSE <<48 + m>> \o DigitsLsf(q)

\* into_iter().rev().collect()
Reverse(s) == [i \in 1..Len(s) |-> s[Len(s) + 1 - i]]

\* String::truncate(k), on ASCII text.
Truncate(s, k) == IF Len(s) > k THEN SubSeq(s, 1, k) ELSE s

\* impl Display for Error
Error_fmt(e) == Truncate(Reverse(DigitsLsf(e)), 2)

(***************************************************************************)
(* The render surface: the 128x64 buffer as the content of its regions.    *)
(* sig, talk, name and ip are the rectangles the *_display functions clear *)
(* and redraw; boot and pie are the boot text and the shutdown ring and    *)
(* sector, which only display.clear removes; banner is the filled banner   *)
(* of handle_error.  An empty sequence is a blank region.                  *)
(***************************************************************************)
\* display.clear(BinaryColor::Off), and the buffer of a new display.
ClearedDisplay ==
    [boot |-> <<>>, sig |-> <<>>, talk |-> <<>>, name |-> <<>>, ip |-> <<>>,
     pie |-> <<>>, banner |-> <<>>]

\* "TALK TO"
TalkTo == <<84, 65, 76, 75, 32, 84, 79>>

\* "Beltpack\nIntercom"
BootText == <<66, 101, 108, 116, 112, 97, 99, 107, 10, 73, 110, 116, 101, 114, 99, 111, 109>>

\* impl Display for IpAddr (V4): the four octets in decimal, joined by dots.
IpToString(ip) ==
    ToDecimal(ip[1]) \o <<46>> \o ToDecimal(ip[2]) \o <<46>> \o ToDecimal(ip[3])
        \o <<46>> \o ToDecimal(ip[4])

\* Rectangle::new(Point::new(x, y), Size::new(w, h))
Rect(x, y, w, h) == [x |-> x, y |-> y, w |-> w, h |-> h]

\* Whether two rectangles share a pixel.
Overlaps(a, b) ==
    /\ a.x < b.x + b.w /\ b.x < a.x + a.w
    /\ a.y < b.y + b.h /\ b.y < a.y + a.h

\* The rectangles name_display clears: the indicator's, top right, and the name's.
NameClearTop == Rect(128 - 58, 0, 58, 14)

\* A plausible slip: the name rectangle reaches down into the address line.
NameClearMain_tall == Rect(0, 16, 128, 48)

NameClearMain == Rect(0, 16, 128, 33)

\* The rectangle signal_display clears.
SignalClear == Rect(0, 0, 34, 14)

\* The rectangle ip_display clears.
IpClear == Rect(0, 50, 128, 14)

\* The rectangle handle_error fills.
BannerRect == Rect(0, 50, 128, 14)

\* Where the text of each region lies: inside the rectangle cleared before it is drawn.
RegionRect ==
    [sig |-> SignalClear, talk |-> NameClearTop, name |-> NameClearMain,
     ip |-> IpClear, banner |-> BannerRect]

\* A rectangle drawn in one colour over the buffer: the text of every region it
\* touches is gone.  (Of the boot text and the shutdown ring and sector it
\* removes a part at most: those stay until display.clear.)
ClearRect(d, r) ==
    [k \in DOMAIN d |->
        IF k \in DOMAIN RegionRect /\ Overlaps(RegionRect[k], r) THEN <<>> ELSE d[k]]

\* boot_screen
boot_screen(d) == [d EXCEPT !.boot = BootText]

\* name_display: clears the two name rectangles, draws the name, and "TALK TO" when talking.
name_display(d, user, talking) ==
    LET c == ClearRect(ClearRect(d, NameClearTop), NameClearMain)
    IN  [c EXCEPT !.name = User_fmt(user), !.talk = IF talking THEN TalkTo ELSE c.talk]

\* signal_display: clears the signal rectangle and draws "<percent>%".
signal_display(d, percent) ==
    [ClearRect(d, SignalClear) EXCEPT !.sig = Percent_fmt(percent) \o <<37>>]

\* ip_display: clears the bottom rectangle and draws the address.
ip_display(d, ip) == [ClearRect(d, IpClear) EXCEPT !.ip = IpToString(ip)]

\* The sweep angle of the sector, in degrees: 360 * (current / max).
SweepAngle(current, max) == (360 * current) \div max

\* power_display: clears the whole buffer, draws the sector and the ring.
power_display(d, currenta, maxa) ==
    [ClearedDisplay EXCEPT !.pie = <<SweepAngle(currenta + 1, maxa + 1)>>]

\* "EPRROR: ", the prefix handle_error writes.
BannerPrefix == <<69, 80, 82, 82, 79, 82, 58, 32>>

\* handle_error: nothing on Ok; on Err the filled rectangle over the bottom
\* line, then the prefix and the error's text on it.
handle_error(result, d) ==
    IF result.tag = "Ok" THEN d
    ELSE [ClearRect(d, BannerRect) EXCEPT !.banner = BannerPrefix \o result.msg]

(***************************************************************************)
(* What the program does to its collaborators is logged per step: log is   *)
(* the sequence of calls made by the last action, each [op, a] with a a    *)
(* sequence of numbers.                                                    *)
(***************************************************************************)
Ev(op, a) == [op |-> op, a |-> a]

(***************************************************************************)
(* Inputs.  An Option or Result input is <<>> for None/Err and <<v>> for   *)
(* Some(v)/Ok(v).                                                          *)
(***************************************************************************)
\* Levels of a GPIO line, as get_value returns them.
Levels == {0, 1}

\* config.get("config", "device_name"): absent, "ME", "CONTROL" (7 bytes), "JOSÉ" (non-ASCII).
DeviceNameOptions == {<<>>, <<<<77, 69>>>>, <<<<67, 79, 78, 84, 82, 79, 76>>>>, <<<<74, 79, 83, 201>>>>}

\* config.get("config", "target_1"): absent, "STAGE", "MONITOR" (7 bytes).
Target1Options == {<<>>, <<<<83, 84, 65, 71, 69>>>>, <<<<77, 79, 78, 73, 84, 79, 82>>>>}

\* config.get("config", "target_2"): absent, "LIGHTS" (6 bytes), "ÉCLAIR" (6 chars, 7 bytes).
Target2Options == {<<>>, <<<<76, 73, 71, 72, 84, 83>>>>, <<<<201, 67, 76, 65, 73, 82>>>>}

\* The stdout of the nmcli pipeline: "42\n", "100\n", "101\n", "300\n", "" (no
\* connected network), "--\n", and a byte that is not UTF-8.
StdoutSamples ==
    {<<52, 50, 10>>, <<49, 48, 48, 10>>, <<49, 48, 49, 10>>, <<51, 48, 48, 10>>,
     <<>>, <<45, 45, 10>>, <<255>>}

\* local_ip(): an error, or the address 10.0.0.7.
LocalIpOutcomes == {<<>>, <<<<10, 0, 0, 7>>>>}

(***************************************************************************)
(* main.  The program state threaded through a step is the record          *)
(* [pc, display, panel, counter, secs, log]; panel is what the last flush  *)
(* sent to the panel.  pc is "config", "boot", "env" (startup), "loop",    *)
(* "exited" (break, main returns Ok) or "panicked" (an unwrap/expect       *)
(* aborted the process).                                                   *)
(***************************************************************************)
\* display.flush()
Flush(m) == [m EXCEPT !.panel = m.display, !.log = Append(@, Ev("flush", <<>>))]

\* A failed unwrap(): the process aborts where it stands.
Panic(m) == [m EXCEPT !.pc = "panicked", !.log = Append(@, Ev("panic", <<>>))]

\* A plausible off-by-one: the hold is complete one tick later.
HoldComplete_late(s) == s > 10

\* secs >= 10: the hold is complete.
HoldComplete(s) == s >= 10

\* A plausible slip: a held tick counts toward the refresh cadence.
PowerBranch_counts(m) ==
    LET m1 == [m EXCEPT !.display = power_display(m.display, m.secs, 9),
                        !.log = Append(@, Ev("power_display", <<m.secs>>))]
        m2 == Flush(m1)
    IN  IF HoldComplete(m2.secs)
        THEN [m2 EXCEPT !.pc = "exited", !.log = Append(@, Ev("break", <<>>))]
        ELSE [m2 EXCEPT !.secs = @ + 1, !.counter = @ + 1,
                        !.log = Append(@, Ev("sleep", <<>>))]

\* The power branch of the loop body.
PowerBranch(m) ==
    LET m1 == [m EXCEPT !.display = power_display(m.display, m.secs, 9),
                        !.log = Append(@, Ev("power_display", <<m.secs>>))]
        m2 == Flush(m1)
    IN  IF HoldComplete(m2.secs)
        THEN [m2 EXCEPT !.pc = "exited", !.log = Append(@, Ev("break", <<>>))]
        ELSE [m2 EXCEPT !.secs = @ + 1, !.log = Append(@, Ev("sleep", <<>>))]

\* A plausible slip: the abort resets and clears but does not force the refresh.
AbortCountdown_noForce(m) ==
    [m EXCEPT !.secs = 0, !.display = ClearedDisplay,
              !.log = Append(@, Ev("clear", <<>>))]

\* The released branch after a hold: reset, clear, force the refresh.
AbortCountdown(m) ==
    [m EXCEPT !.secs = 0, !.display = ClearedDisplay, !.counter = 10,
              !.log = Append(@, Ev("clear", <<>>))]

\* A plausible slip: PTT2 tested before PTT1.
SelectName_ptt2First(ptt1, ptt2, cur, t1, t2) ==
    IF ptt2 = 1 THEN <<t2, TRUE>> ELSE IF ptt1 = 1 THEN <<t1, TRUE>> ELSE <<cur, FALSE>>

\* Which name screen the PTT levels select: <<user, talking>>.
SelectName(ptt1, ptt2, cur, t1, t2) ==
    IF ptt1 = 1 THEN <<t1, TRUE>> ELSE IF ptt2 = 1 THEN <<t2, TRUE>> ELSE <<cur, FALSE>>

\* The PTT branches: sample PTT1, then PTT2 only when PTT1 is off; draw and flush.
NameBranch(m, ptt1, ptt2, cur, t1, t2) ==
    LET sel == SelectName(ptt1, ptt2, cur, t1, t2)
        sampled == IF ptt1 = 1 THEN <<Ev("get_value_ptt1", <<ptt1>>)>>
                   ELSE <<Ev("get_value_ptt1", <<ptt1>>), Ev("get_value_ptt2", <<ptt2>>)>>
        m1 == [m EXCEPT !.display = name_display(m.display, sel[1], sel[2]),
                        !.log = @ \o sampled
                                \o <<Ev("name_display", <<IF sel[2] THEN 1 ELSE 0>> \o sel[1])>>]
    IN  Flush(m1)

\* A plausible off-by-one: the gate opens at 9.
RefreshDue_nine(c, s) == c >= 9 \/ s # 0

\* The refresh gate.
RefreshDue(c, s) == c = 10 \/ s # 0

\* A plausible slip: the refresh draws but leaves its flush out.
RefreshBranch_noFlush(m, stdout, ip) ==
    LET text == TrimEnd(FromUtf8Lossy(stdout))
        m1 == [m EXCEPT !.log = Append(@, Ev("query", stdout))]
        percent == Percent_new(text)
    IN  IF percent.tag # "Ok" THEN Panic(m1)
        ELSE LET m2 == [m1 EXCEPT !.display = signal_display(m1.display, percent.val),
                                  !.log = Append(@, Ev("signal_display", <<percent.val>>))]
                 m3 == [m2 EXCEPT !.log = Append(@, Ev("local_ip", <<>>))]
             IN  IF ip = <<>> THEN Panic(m3)
                 ELSE [m3 EXCEPT !.display = ip_display(m3.display, ip[1]),
                                 !.log = Append(@, Ev("ip_display", ip[1])),
                                 !.counter = 0]

\* A plausible slip: the refresh leaves the counter where it was.
RefreshBranch_noReset(m, stdout, ip) ==
    LET text == TrimEnd(FromUtf8Lossy(stdout))
        m1 == [m EXCEPT !.log = Append(@, Ev("query", stdout))]
        percent == Percent_new(text)
    IN  IF percent.tag # "Ok" THEN Panic(m1)
        ELSE LET m2 == [m1 EXCEPT !.display = signal_display(m1.display, percent.val),
                                  !.log = Append(@, Ev("signal_display", <<percent.val>>))]
                 m3 == [m2 EXCEPT !.log = Append(@, Ev("local_ip", <<>>))]
             IN  IF ip = <<>> THEN Panic(m3)
                 ELSE Flush([m3 EXCEPT !.display = ip_display(m3.display, ip[1]),
                                       !.log = Append(@, Ev("ip_display", ip[1]))])

\* The refresh: query nmcli, validate, draw signal and address, flush, reset the counter.
RefreshBranch(m, stdout, ip) ==
    LET text == TrimEnd(FromUtf8Lossy(stdout))
        m1 == [m EXCEPT !.log = Append(@, Ev("query", stdout))]
        percent == Percent_new(text)
    IN  IF percent.tag # "Ok" THEN Panic(m1)
        ELSE LET m2 == [m1 EXCEPT !.display = signal_display(m1.display, percent.val),
                                  !.log = Append(@, Ev("signal_display", <<percent.val>>))]
                 m3 == [m2 EXCEPT !.log = Append(@, Ev("local_ip", <<>>))]
             IN  IF ip = <<>> THEN Panic(m3)
                 ELSE Flush([m3 EXCEPT !.display = ip_display(m3.display, ip[1]),
                                       !.log = Append(@, Ev("ip_display", ip[1])),
                                       !.counter = 0])

\* A plausible slip: a pressed PTT1 is served before the power line.
LoopBody_pttFirst(m, power, ptt1, ptt2, stdout, ip, cur, t1, t2) ==
    LET m0 == [m EXCEPT !.log = <<Ev("get_value_power", <<power>>)>>]
    IN  IF power = 1 /\ ptt1 # 1 THEN PowerBranch(m0)
        ELSE LET m1 == IF m0.secs # 0 THEN AbortCountdown(m0) ELSE m0
                 m2 == NameBranch(m1, ptt1, ptt2, cur, t1, t2)
                 m3 == IF RefreshDue(m2.counter, m2.secs)
                       THEN RefreshBranch(m2, stdout, ip) ELSE m2
             IN  IF m3.pc = "panicked" THEN m3
                 ELSE [m3 EXCEPT !.counter = @ + 1, !.log = Append(@, Ev("sleep", <<>>))]

\* One iteration of the loop.
LoopBody(m, power, ptt1, ptt2, stdout, ip, cur, t1, t2) ==
    LET m0 == [m EXCEPT !.log = <<Ev("get_value_power", <<power>>)>>]
    IN  IF power = 1 THEN PowerBranch(m0)
        ELSE LET m1 == IF m0.secs # 0 THEN AbortCountdown(m0) ELSE m0
                 m2 == NameBranch(m1, ptt1, ptt2, cur, t1, t2)
                 m3 == IF RefreshDue(m2.counter, m2.secs)
                       THEN RefreshBranch(m2, stdout, ip) ELSE m2
             IN  IF m3.pc = "panicked" THEN m3
                 ELSE [m3 EXCEPT !.counter = @ + 1, !.log = Append(@, Ev("sleep", <<>>))]

(***************************************************************************)
(* The state machine of main.                                              *)
(***************************************************************************)
\* History of the last loop iteration: inp is the level of each line during it
\* (-1 before the first), prev the counters and the signal and address regions
\* of the buffer as the iteration found them.  held
\* counts the consecutive iterations that sampled power on; sinceQuery counts
\* the iterations since one queried nmcli (-1 before the loop's first query) and
\* gap is the distance between the loop's last two queries (0 before the second).
NoInput == [power |-> -1, ptt1 |-> -1, ptt2 |-> -1]

\* The configuration before config.load: nothing read.
NoConfig == [read |-> FALSE, loaded |-> FALSE, device_name |-> <<>>,
             target_1 |-> <<>>, target_2 |-> <<>>]

NoRet == [tag |-> "None", val |-> <<>>, msg |-> ""]

\* The state when main starts: nothing loaded, a blank buffer and panel.
MainStart ==
    /\ config = NoConfig
    /\ current_user = <<>>
    /\ target_user_1 = <<>>
    /\ target_user_2 = <<>>
    /\ display = ClearedDisplay
    /\ panel = ClearedDisplay
    /\ counter = 0
    /\ secs = 0
    /\ log = <<>>
    /\ inp = NoInput
    /\ prev = [counter |-> 0, secs |-> 0, held |-> 0, sig |-> <<>>, ip |-> <<>>]
    /\ held = 0
    /\ sinceQuery = -1
    /\ gap = 0
    /\ everPower = FALSE
    /\ everPtt = FALSE

Init ==
    /\ pc = "config"
    /\ MainStart
    /\ arg = <<>>
    /\ ret = NoRet

mainVars == <<config, current_user, target_user_1, target_user_2, display, panel,
              counter, secs, log, inp, prev, held, sinceQuery, gap, everPower,
              everPtt>>

\* A plausible slip: only the device name is validated.
ConfigUsers_deviceOnly(loaded, d, t1, t2) ==
    IF ~loaded \/ d = <<>> \/ t1 = <<>> \/ t2 = <<>> THEN <<>>
    ELSE IF User_new(d[1]).tag # "Ok" THEN <<>>
    ELSE <<User_new(d[1]).val, t1[1], t2[1]>>

\* The three identities of the configuration, each loaded, unwrapped and validated in turn.
ConfigUsers(loaded, d, t1, t2) ==
    IF ~loaded \/ d = <<>> \/ t1 = <<>> \/ t2 = <<>> THEN <<>>
    ELSE IF \E v \in {d[1], t1[1], t2[1]} : User_new(v).tag # "Ok" THEN <<>>
    ELSE <<User_new(d[1]).val, User_new(t1[1]).val, User_new(t2[1]).val>>

\* config.load and the three User::new(...).unwrap() of main.
LoadConfig ==
    /\ pc = "config"
    /\ \E loaded \in BOOLEAN, d \in DeviceNameOptions, t1 \in Target1Options,
          t2 \in Target2Options :
          LET users == ConfigUsers(loaded, d, t1, t2)
          IN  /\ config' = [read |-> TRUE, loaded |-> loaded, device_name |-> d,
                             target_1 |-> t1, target_2 |-> t2]
              /\ pc' = IF users = <<>> THEN "panicked" ELSE "boot"
              /\ current_user' = IF users = <<>> THEN <<>> ELSE users[1]
              /\ target_user_1' = IF users = <<>> THEN <<>> ELSE users[2]
              /\ target_user_2' = IF users = <<>> THEN <<>> ELSE users[3]
              /\ log' = IF users = <<>> THEN <<Ev("config", <<>>), Ev("panic", <<>>)>>
                        ELSE <<Ev("config", <<>>)>>
    /\ UNCHANGED <<display, panel, counter, secs, inp, prev, held, sinceQuery, gap,
                   everPower, everPtt, arg, ret>>

\* The boot screen: draw, flush, sleep 3 s, clear the buffer.
BootScreen ==
    /\ pc = "boot"
    /\ pc' = "env"
    /\ panel' = boot_screen(display)
    /\ display' = ClearedDisplay
    /\ log' = <<Ev("boot_screen", <<>>), Ev("flush", <<>>), Ev("sleep", <<>>),
                Ev("clear", <<>>)>>
    /\ UNCHANGED <<config, current_user, target_user_1, target_user_2, counter, secs,
                   inp, prev, held, sinceQuery, gap, everPower, everPtt, arg, ret>>

\* The first screen of main: address, signal, name, flush; then counter and secs start at 0.
FirstScreen(m, stdout, ip, t1) ==
    LET m0 == [m EXCEPT !.log = <<Ev("local_ip", <<>>)>>]
    IN  IF ip = <<>> THEN Panic(m0)
        ELSE LET m1 == [m0 EXCEPT !.log = Append(@, Ev("query", stdout))]
                 percent == Percent_new(TrimEnd(FromUtf8Lossy(stdout)))
             IN  IF percent.tag # "Ok" THEN Panic(m1)
                 ELSE LET d1 == signal_display(m1.display, percent.val)
                          d2 == name_display(d1, t1, FALSE)
                          d3 == ip_display(d2, ip[1])
                      IN  Flush([m1 EXCEPT !.display = d3,
                                    !.log = @ \o <<Ev("signal_display", <<percent.val>>),
                                                   Ev("name_display", <<0>> \o t1),
                                                   Ev("ip_display", ip[1])>>,
                                    !.counter = 0, !.secs = 0, !.pc = "loop"])

\* The program state as a record, and back.
Machine == [pc |-> pc, display |-> display, panel |-> panel, counter |-> counter,
            secs |-> secs, log |-> log]

Becomes(m) ==
    /\ pc' = m.pc
    /\ display' = m.display
    /\ panel' = m.panel
    /\ counter' = m.counter
    /\ secs' = m.secs
    /\ log' = m.log

InitialRefresh ==
    /\ pc = "env"
    /\ \E stdout \in StdoutSamples, ip \in LocalIpOutcomes :
       \E m \in {FirstScreen(Machine, stdout, ip, target_user_1)} : Becomes(m)
    /\ UNCHANGED <<config, current_user, target_user_1, target_user_2, inp, prev, held,
                   sinceQuery, gap, everPower, everPtt, arg, ret>>

\* Whether the calls of a step include op.
Did(l, op) == \E i \in 1..Len(l) : l[i].op = op

\* One iteration of the loop, with the levels and provider outputs it may read.
\* The three lines have a level in every iteration, read or not; the providers
\* have an output only in an iteration that queries them: Queries tells, by
\* running the body on empty outputs.
Queries(power, ptt1, ptt2) ==
    Did(LoopBody(Machine, power, ptt1, ptt2, <<>>, <<>>,
                 current_user, target_user_1, target_user_2).log, "query")

Tick ==
    /\ pc = "loop"
    /\ \E power \in Levels :
       \E ptt1 \in Levels :
       \E ptt2 \in Levels :
       \E stdout \in IF Queries(power, ptt1, ptt2) THEN StdoutSamples ELSE {<<>>} :
       \E ip \in IF Queries(power, ptt1, ptt2) THEN LocalIpOutcomes ELSE {<<>>} :
       \E m \in {LoopBody(Machine, power, ptt1, ptt2, stdout, ip,
                           current_user, target_user_1, target_user_2)} :
          LET queried == Did(m.log, "query")
          IN  /\ Becomes(m)
              /\ inp' = [power |-> power, ptt1 |-> ptt1, ptt2 |-> ptt2]
              /\ prev' = [counter |-> counter, secs |-> secs, held |-> held,
                           sig |-> display.sig, ip |-> display.ip]
              /\ held' = IF power = 1 THEN held + 1 ELSE 0
              /\ everPower' = (everPower \/ power = 1)
              /\ everPtt' = (everPtt \/ ptt1 = 1 \/ ptt2 = 1)
              /\ sinceQuery' = IF queried THEN 0
                               ELSE IF sinceQuery = -1 THEN -1 ELSE sinceQuery + 1
              /\ gap' = IF queried /\ sinceQuery # -1 THEN sinceQuery + 1
                        ELSE IF queried THEN 0 ELSE gap
    /\ UNCHANGED <<config, current_user, target_user_1, target_user_2, arg, ret>>

Next == LoadConfig \/ BootScreen \/ InitialRefresh \/ Tick

Spec == Init /\ [][Next]_vars

(***************************************************************************)
(* The value constructors on their own: each specification draws an        *)
(* argument and applies the constructor to it.                             *)
(***************************************************************************)
\* The characters names are drawn from: 'A', U+00E9 (two bytes), U+20AC (three bytes).
NameAlphabet == {65, 233, 8364}

NameStrings == UNION {[1..n -> NameAlphabet] : n \in 0..MaxNameChars}

InitUser ==
    /\ pc = "call_User_new"
    /\ MainStart
    /\ arg \in NameStrings
    /\ ret = NoRet

CallUserNew ==
    /\ pc = "call_User_new"
    /\ pc' = "ret_User_new"
    /\ ret' = User_new(arg)
    /\ UNCHANGED <<arg, mainVars>>

SpecUser == InitUser /\ [][CallUserNew]_vars

InitPercent ==
    /\ pc = "call_Percent_new"
    /\ MainStart
    /\ arg \in {ToDecimal(n) : n \in 0..MaxPercentArg}
    /\ ret = NoRet

CallPercentNew ==
    /\ pc = "call_Percent_new"
    /\ pc' = "ret_Percent_new"
    /\ ret' = Percent_new(arg)
    /\ UNCHANGED <<arg, mainVars>>

SpecPercent == InitPercent /\ [][CallPercentNew]_vars

\* The characters diagnostic codes are drawn from: '0', '1', '5', '6', '-' and
\* U+00E9 (two bytes).
CodeAlphabet == {48, 49, 53, 54, 45, 233}

CodeStrings == UNION {[1..n -> CodeAlphabet] : n \in 0..MaxCodeChars}

InitError ==
    /\ pc = "call_Error_new"
    /\ MainStart
    /\ arg \in CodeStrings
    /\ ret = NoRet

CallErrorNew ==
    /\ pc = "call_Error_new"
    /\ pc' = "ret_Error_new"
    /\ ret' = Error_new(arg)
    /\ UNCHANGED <<arg, mainVars>>

\* The accepted code is displayed: ret becomes the text shown.
CallErrorFmt ==
    /\ pc = "ret_Error_new"
    /\ ret.tag = "Ok"
    /\ pc' = "ret_Error_fmt"
    /\ ret' = [tag |-> "Shown", val |-> Error_fmt(ret.val), msg |-> ""]
    /\ UNCHANGED <<arg, mainVars>>

NextError == CallErrorNew \/ CallErrorFmt

SpecError == InitError /\ [][NextError]_vars

(***************************************************************************)
(* handle_error applied to results: Ok, and Err with an error whose        *)
(* to_string is a short text or one of the constructors' messages.  It is  *)
(* called on the blank buffer or on a screen with the address line drawn;  *)
(* panel keeps the buffer as it was before the call.                       *)
(***************************************************************************)
\* "Invalid Input", the text of User::new's and Percent::new's error.
InvalidInputText == <<73, 110, 118, 97, 108, 105, 100, 32, 73, 110, 112, 117, 116>>

\* The characters error texts are drawn from: 'I', 'o', ' '.
MsgAlphabet == {73, 111, 32}

MsgStrings == UNION {[1..n -> MsgAlphabet] : n \in 0..MaxMsgChars} \cup {InvalidInputText}

HandleErrorResults ==
    {[tag |-> "Ok", msg |-> <<>>]} \cup {[tag |-> "Err", msg |-> t] : t \in MsgStrings}

InitHandleError ==
    /\ pc = "call_handle_error"
    /\ MainStart
    /\ arg \in HandleErrorResults
    /\ ret = NoRet

\* The screen handle_error may find: signal and address drawn and flushed.
DrawScreen ==
    /\ pc = "call_handle_error"
    /\ display = ClearedDisplay
    /\ \E ip \in LocalIpOutcomes \ {<<>>} :
          /\ display' = ip_display(signal_display(display, 42), ip[1])
          /\ panel' = display'
    /\ log' = <<Ev("signal_display", <<42>>), Ev("ip_display", <<>>), Ev("flush", <<>>)>>
    /\ UNCHANGED <<pc, config, current_user, target_user_1, target_user_2, counter, secs,
                   inp, prev, held, sinceQuery, gap, everPower, everPtt, arg, ret>>

CallHandleError ==
    /\ pc = "call_handle_error"
    /\ pc' = "ret_handle_error"
    /\ display' = handle_error(arg, display)
    /\ log' = IF arg.tag = "Ok" THEN <<>>
              ELSE <<Ev("fill_rect", <<>>), Ev("render_aligned", BannerPrefix \o arg.msg)>>
    /\ UNCHANGED <<config, current_user, target_user_1, target_user_2, panel, counter,
                   secs, inp, prev, held, sinceQuery, gap, everPower, everPtt, arg, ret>>

NextHandleError == DrawScreen \/ CallHandleError

SpecHandleError == InitHandleError /\ [][NextHandleError]_vars

(***************************************************************************)
(* Claims about the control loop.  They read the history of the last step: *)
(* its log, the levels inp it sampled and the counters prev it started     *)
(* from.                                                                   *)
(***************************************************************************)
\* The last step was an iteration of the loop.
InTick == Len(log) > 0 /\ log[1].op = "get_value_power"

\* How many calls of op the last step made.
Count(l, op) == Cardinality({i \in 1..Len(l) : l[i].op = op})

\* The calls that draw on the buffer.
DrawOps == {"power_display", "clear", "name_display", "signal_display", "ip_display"}

\* The stdout the last step's query returned.
QueryOutput(l) == l[CHOOSE i \in 1..Len(l) : l[i].op = "query"].a

\* C1: from a tick where the countdown is not active, power sampled on for 10
\* consecutive ticks makes the loop terminate on the 10th of those ticks.
C1_HoldTenTicksExits == (InTick /\ held = 10) => pc = "exited"

\* C2: on the tick that samples power off after a hold of one or more ticks
\* that did not complete, elapsed is reset to 0, the whole canvas is cleared, the
\* Idle name screen is shown when no PTT is on, and the environment provider is
\* queried on that same tick whatever the refresh counter was.
C2_ReleaseAbortsAndRefreshes ==
    (InTick /\ inp.power = 0 /\ prev.held >= 1) =>
        /\ secs = 0
        /\ log[2].op = "clear"
        /\ panel.pie = <<>>
        /\ (inp.ptt1 = 0 /\ inp.ptt2 = 0) => (panel.name = current_user /\ panel.talk = <<>>)
        /\ Did(log, "query")

\* A hold of 9 ticks that began with the refresh counter at 3 was released with
\* no PTT on, and the release tick queried the provider and went on.
C2_Witness ==
    /\ InTick /\ pc = "loop"
    /\ inp = [power |-> 0, ptt1 |-> 0, ptt2 |-> 0]
    /\ prev.held = 9 /\ prev.counter = 3
    /\ secs = 0 /\ Did(log, "query") /\ panel.name = current_user

\* C3: on every tick that samples power off, the name screen shown follows that
\* tick's PTT levels alone: PTT1 on (PTT2 on or off) shows target 1 with the
\* talking indicator, PTT1 off and PTT2 on shows target 2 with it, both off show
\* the device's own identity without it.
C3_NameScreenFollowsPtt ==
    (InTick /\ inp.power = 0) =>
        /\ inp.ptt1 = 1 => (panel.name = target_user_1 /\ panel.talk = TalkTo)
        /\ (inp.ptt1 = 0 /\ inp.ptt2 = 1) =>
               (panel.name = target_user_2 /\ panel.talk = TalkTo)
        /\ (inp.ptt1 = 0 /\ inp.ptt2 = 0) =>
               (panel.name = current_user /\ panel.talk = <<>>)

\* Both PTT lines were on and target 1 is shown with the indicator.
C3_Witness ==
    /\ InTick
    /\ inp = [power |-> 0, ptt1 |-> 1, ptt2 |-> 1]
    /\ panel.name = target_user_1 /\ panel.name # target_user_2
    /\ panel.talk = TalkTo

\* C4: while power was never sampled on and no PTT was pressed, two consecutive
\* queries of the loop are exactly 10 ticks apart (so no 10 consecutive ticks
\* hold two queries), and no 10 ticks pass after a query without the next.
C4_RefreshEveryTenTicks ==
    (InTick /\ ~everPower /\ ~everPtt) => (gap \in {0, 10} /\ sinceQuery <= 9)

\* The loop queried for the second time, 10 ticks after the first, with no button touched.
C4_Witness ==
    /\ InTick /\ pc = "loop"
    /\ ~everPower /\ ~everPtt
    /\ gap = 10 /\ sinceQuery = 0 /\ Did(log, "query")

\* C5: when the refresh in the loop yields a signal value Percent::new rejects,
\* the failure is caught, the error banner is shown and the loop goes on.
C5_RefreshFailureIsCaught ==
    (InTick /\ Did(log, "query")
        /\ Percent_new(TrimEnd(FromUtf8Lossy(QueryOutput(log)))).tag # "Ok") =>
        (pc = "loop" /\ display.banner # <<>>)

\* C6 as stated: every tick flushes exactly once, after all the drawing of the
\* tick (read here of the ticks that run to their sleep or break only).
C6_FlushOncePerTick ==
    (InTick /\ pc # "panicked") =>
        /\ Count(log, "flush") = 1
        /\ \A i, j \in 1..Len(log) :
               (log[i].op \in DrawOps /\ log[j].op = "flush") => i < j

\* C6 as amended: every tick flushes once right after drawing the shutdown or
\* name screen and, when its refresh redraws the signal and IP regions, once
\* more right after that: one flush in a tick without a completed refresh, two
\* in a tick with one; and in every tick that runs to its sleep or break the
\* last flush follows all the drawing of the tick.
C6_FlushAfterEachDrawPhase ==
    InTick =>
        /\ Count(log, "flush") = IF Did(log, "ip_display") THEN 2 ELSE 1
        /\ \E i \in 1..(Len(log) - 1) :
               /\ log[i].op \in {"power_display", "name_display"}
               /\ log[i + 1].op = "flush"
        /\ \A i \in 1..Len(log) :
               log[i].op = "ip_display" => (i < Len(log) /\ log[i + 1].op = "flush")
        /\ pc # "panicked" =>
               \A i \in 1..Len(log) :
                   log[i].op \in DrawOps =>
                       \E j \in (i + 1)..Len(log) : log[j].op = "flush"

\* A tick drew the name screen, flushed, refreshed signal and address and flushed again.
C6_Witness ==
    /\ InTick /\ pc = "loop"
    /\ Count(log, "flush") = 2
    /\ Did(log, "name_display") /\ Did(log, "signal_display") /\ Did(log, "ip_display")

\* C7: the loop ends only by the completed hold: on every tick where it ends,
\* power was sampled on and elapsed had reached 10; no released-power tick, PTT
\* level or refresh result ends it.
C7_LoopEndsOnlyByHold ==
    (InTick /\ pc # "loop") => (inp.power = 1 /\ prev.secs >= 10)

\* C8: the first name screen drawn and flushed after the boot screen shows the
\* device's own identity, without the talking indicator.
C8_FirstNameScreenIsOwnIdentity ==
    (pc = "loop" /\ ~InTick) => (panel.name = current_user /\ panel.talk = <<>>)

(***************************************************************************)
(* Claims about the value constructors.                                    *)
(***************************************************************************)
\* C9: Percent::new, given the decimal string of n, succeeds for every n in
\* 0..100 and displays the same string, and for every n of 101 and above
\* (values above 255 too) returns the failure value "Invalid Input" instead
\* of succeeding or aborting.
C9_PercentNewRejectsAbove100 ==
    pc = "ret_Percent_new" =>
        \A n \in 0..MaxPercentArg :
            arg = ToDecimal(n) =>
                /\ n <= 100 => (ret.tag = "Ok" /\ Percent_fmt(ret.val) = arg)
                /\ n >= 101 => (ret.tag = "Err" /\ ret.msg = "Invalid Input")

\* C10: User::new succeeds exactly for the strings of at most 6 characters that
\* are all ASCII, and the value then displays as the identical string; every
\* other string fails with "Invalid Input".
C10_UserNewAcceptsExactly ==
    pc = "ret_User_new" =>
        /\ (ret.tag = "Ok") <=> (Len(arg) <= 6 /\ \A i \in 1..Len(arg) : arg[i] < 128)
        /\ ret.tag = "Ok" => User_fmt(ret.val) = arg
        /\ ret.tag # "Ok" => (ret.tag = "Err" /\ ret.msg = "Invalid Input")

\* A name of exactly six ASCII characters was accepted and is displayed whole.
C10_Witness ==
    /\ pc = "ret_User_new"
    /\ ret.tag = "Ok"
    /\ Len(arg) = 6
    /\ User_fmt(ret.val) = arg

\* The digit a char stands for.
DigitOf(c) == c - 48

\* C11: Error::new succeeds exactly when the input has length 4 and the three
\* characters left after removing the one at position 2 are base-6 digits;
\* every other input (any other length too) fails with the failure value; on
\* success the byte is 36*d1 + 6*d2 + d3, within 0..215.  Length is read as
\* str::len reads it, in bytes, so the four are one-byte characters.
C11_ErrorNewAcceptsExactly ==
    pc = "ret_Error_new" =>
        LET good == /\ StrLen(arg) = 4
                    /\ Len(arg) = 4
                    /\ \A i \in {1, 2, 4} : arg[i] \in 48..53
        IN  /\ (ret.tag = "Ok") <=> good
            /\ ret.tag # "Ok" => (ret.tag = "Err" /\ ret.msg = "Invalid input")
            /\ ret.tag = "Ok" =>
                   /\ ret.val = 36 * DigitOf(arg[1]) + 6 * DigitOf(arg[2]) + DigitOf(arg[4])
                   /\ ret.val \in 0..215

\* C12: for every accepted code d1 d2 ? d3, displaying the encoded byte drops
\* d3 and yields exactly the two characters d1 d2.
C12_DisplayIsFirstTwoDigits ==
    pc = "ret_Error_fmt" => ret.val = <<arg[1], arg[2]>>

\* An identity of the configuration that fails to load (absent) or that
\* User::new rejects.
IdentityFails(o) == o = <<>> \/ User_new(o[1]).tag # "Ok"

\* C13: if the configuration does not load, or any of the three identities
\* fails to load or is rejected by User::new, the program aborts before the
\* loop: no tick is executed, no input line is sampled, nothing is drawn.
C13_StartupIdentityFailureAborts ==
    (/\ config.read
     /\ \/ ~config.loaded
        \/ \E o \in {config.device_name, config.target_1, config.target_2} :
              IdentityFails(o))
        => /\ pc = "panicked"
           /\ ~InTick
           /\ inp = NoInput
           /\ display = ClearedDisplay
           /\ panel = ClearedDisplay

\* Device name and first target are valid, the second target is present and
\* rejected, and the program has aborted.
C13_Witness ==
    /\ pc = "panicked"
    /\ config.loaded
    /\ ~IdentityFails(config.device_name)
    /\ ~IdentityFails(config.target_1)
    /\ config.target_2 # <<>>
    /\ User_new(config.target_2[1]).tag = "Err"

C15_SweepWithinFullCircle ==
    (InTick /\ inp.power = 1) =>
        /\ Count(log, "power_display") = 1
        /\ \A i \in 1..Len(log) : log[i].op = "power_display" => log[i].a[1] \in 0..9
        /\ display.pie = <<36 * held>>
        /\ display.pie[1] <= 360
        /\ panel.pie = display.pie

\* "ERROR: "
ErrorPrefix == <<69, 82, 82, 79, 82, 58, 32>>

\* C16: given a failure, handle_error paints the filled banner across the
\* bottom of the screen with the text "ERROR: " followed by the failure's
\* description; given a success it draws nothing.
C16_BannerReadsError ==
    pc = "ret_handle_error" =>
        /\ arg.tag = "Err" =>
               /\ display.banner = ErrorPrefix \o arg.msg
               /\ display.ip = <<>>
               /\ Did(log, "fill_rect")
        /\ arg.tag = "Ok" => (display = panel /\ log = <<>>)

\* C17: power has priority over both PTT lines and one screen branch renders
\* per tick: with power sampled on, the shutdown screen is drawn once and no
\* name screen, whatever the PTT levels, and the PTT lines are not read; with
\* power sampled off, one name screen is drawn and no shutdown screen.
C17_PowerFirstOneBranchPerTick ==
    InTick =>
        /\ inp.power = 1 =>
               /\ Count(log, "power_display") = 1
               /\ Count(log, "name_display") = 0
               /\ ~Did(log, "get_value_ptt1") /\ ~Did(log, "get_value_ptt2")
               /\ display.pie # <<>>
               /\ display.name = <<>> /\ display.talk = <<>>
        /\ inp.power = 0 =>
               /\ Count(log, "name_display") = 1
               /\ Count(log, "power_display") = 0
               /\ display.pie = <<>>

\* Power is on with both PTT lines pressed: the shutdown screen alone is drawn.
C17_Witness ==
    /\ InTick
    /\ inp = [power |-> 1, ptt1 |-> 1, ptt2 |-> 1]
    /\ Count(log, "power_display") = 1
    /\ panel.pie # <<>>
    /\ panel.name = <<>>

\* C18: the rectangles name_display clears are disjoint from the one
\* signal_display clears and from the one ip_display clears; so a tick that
\* redraws the name, without a full clear or a refresh, leaves the signal and
\* address drawn at the last refresh as they were.
C18_NameRedrawKeepsSignalAndIp ==
    /\ \A n \in {NameClearTop, NameClearMain} :
          ~Overlaps(n, SignalClear) /\ ~Overlaps(n, IpClear)
    /\ (InTick /\ inp.power = 0 /\ ~Did(log, "clear") /\ ~Did(log, "query")) =>
           /\ Did(log, "name_display")
           /\ display.sig = prev.sig /\ display.sig # <<>>
           /\ display.ip = prev.ip /\ display.ip # <<>>
           /\ panel.sig = prev.sig /\ panel.ip = prev.ip

\* The name screen went to "TALK TO" in a tick that neither cleared nor
\* refreshed, and signal and address are still on the panel.
C18_Witness ==
    /\ InTick
    /\ inp.power = 0 /\ inp.ptt1 = 1
    /\ ~Did(log, "clear") /\ ~Did(log, "query")
    /\ panel.talk = TalkTo
    /\ panel.sig = prev.sig /\ panel.sig # <<>>
    /\ panel.ip = prev.ip /\ panel.ip # <<>>

\* C19: a tick with power sampled off that follows a tick that drew the
\* shutdown screen, after a hold of any length, clears the whole buffer and
\* redraws name, signal and address: after its last flush nothing of the
\* shutdown screen remains and no region is blank.
C19_ReleaseRedrawsEverything ==
    (InTick /\ inp.power = 0 /\ prev.held >= 1) =>
        /\ Did(log, "clear")
        /\ panel.pie = <<>>
        /\ Did(log, "name_display") /\ Did(log, "signal_display") /\ Did(log, "ip_display")
        /\ panel.sig # <<>>
        /\ panel.ip # <<>>

\* C20: on every tick where power is sampled on, nmcli and local_ip are not
\* queried, signal and address are not redrawn, and the counter is unchanged.
C20_HoldSuspendsRefresh ==
    (InTick /\ inp.power = 1) =>
        /\ ~Did(log, "query") /\ ~Did(log, "local_ip")
        /\ ~Did(log, "signal_display") /\ ~Did(log, "ip_display")
        /\ counter = prev.counter

\* A refresh was due (the counter stood at 10) and power was sampled on: no
\* query, and the counter still stands at 10.
C20_Witness ==
    /\ InTick
    /\ inp.power = 1
    /\ prev.counter = 10
    /\ counter = 10
    /\ ~Did(log, "query")

\* C21: from any state of the loop, power sampled on at every further tick
\* ends the loop within 11 ticks: secs is the number of consecutive ticks that
\* sampled power on, at most 10 while the loop runs, a tick with power on
\* never aborts, and the loop has ended by break once that number is 11.  A
\* tick with power sampled off puts secs back to 0, so the whole hold starts
\* again.
C21_HoldEndsLoopWithinElevenTicks ==
    /\ pc = "loop" => (secs = held /\ held \in 0..10)
    /\ (InTick /\ inp.power = 1) =>
           /\ pc \in {"loop", "exited"}
           /\ held = prev.held + 1
           /\ held <= 11
           /\ (pc = "exited") <=> (held = 11)
           /\ pc = "loop" => secs = prev.secs + 1
    /\ (InTick /\ inp.power = 0) => (secs = 0 /\ held = 0)
    /\ pc = "exited" => (held = 11 /\ Did(log, "break"))

\* A hold of four ticks was released; the tick reset secs from 4 to 0.
C21_WitnessReset ==
    /\ InTick
    /\ inp.power = 0
    /\ prev.held = 4 /\ prev.secs = 4
    /\ secs = 0
    /\ pc = "loop"

\* The loop ended on the 11th consecutive held tick, the hold having started
\* right after a tick with power off that refreshed.
C21_Witness ==
    /\ pc = "exited"
    /\ inp.power = 1
    /\ held = 11
    /\ prev.secs = 10
    /\ counter = 1

====
